---- MODULE Spec2Model ----
(***************************************************************************)
(* Verification model of opm-core's WellState (opm/core/simulator/         *)
(* WellState.hpp) and of the column-extraction test (ColumnExtractTest).   *)
(*                                                                         *)
(* A double is modelled as a normalised decimal <<m, e>> standing for      *)
(* m * 10^e (m has no trailing zero, zero is <<0, 0>>), so that the        *)
(* magnitudes the code mixes (1e-14, 293.15, 1.01, -1e100) are all exact   *)
(* and products are computed, not assumed.                                 *)
(***************************************************************************)
EXTENDS Integers, Sequences, FiniteSets, TLC

\* ------------------------------------------------------------- bounds
\* Largest number of wells in a well set.
MaxWells == 2
\* Largest number of controls in one well's control list.
MaxCtrls == 2
\* Largest number of connections of one well.
MaxConn == 1
\* Number of phases of the well sets (wells->number_of_phases).
NumPhases == 2
\* Largest size a vector is given through a mutable accessor.
MaxResize == 2
\* Largest horizontal extent (size_x, size_y) of a structured grid.
MaxSide == 4
\* Largest vertical extent (size_z) of a structured grid.
MaxDepth == 10

\* ------------------------------------------------------------ doubles
RECURSIVE Norm(_, _)
Norm(m, e) ==
    IF m = 0 THEN <<0, 0>>
    ELSE IF m % 10 = 0 THEN Norm(m \div 10, e + 1)
    ELSE <<m, e>>

RECURSIVE Pow10(_)
Pow10(n) == IF n = 0 THEN 1 ELSE 10 * Pow10(n - 1)

\* A double is <<m, e>>, the number m * 10^e. A double the model cannot know,
\* because the build takes it from memory that belongs to no object of the
\* program, is written with the unknown x it was found as: <<m, e, "x">> is
\* m * 10^e * x, whatever double x is.
IsUnknown(a) == Len(a) = 3

\* a * b on doubles, at most one of them unknown
Mul(a, b) ==
    LET p == Norm(a[1] * b[1], a[2] + b[2])
    IN  IF IsUnknown(a) \/ IsUnknown(b) THEN <<p[1], p[2], "x">> ELSE p

\* a + b on doubles
Add(a, b) ==
    LET e == IF a[2] < b[2] THEN a[2] ELSE b[2]
    IN  Norm(a[1] * Pow10(a[2] - e) + b[1] * Pow10(b[2] - e), e)

\* 0.0, also the value of a default-constructed vector element
Zero == <<0, 0>>

\* -1e100, the "not applicable" marker of thp, bhp and perfpress
Unset == <<-1, 100>>

\* 273.15 + 20
StandardTemperature == Add(<<27315, -2>>, <<2, 1>>)

\* const double small_rate = 1e-14
small_rate == <<1, -14>>

\* --------------------------------------------- wells.h, well_controls.h
NULL == "NULL"

WellTypes == {"INJECTOR", "PRODUCER"}

WellControlTypes == {"BHP", "THP", "RESERVOIR_RATE", "SURFACE_RATE"}

\* Target of the control at (1-based) place i of a control list: a pressure
\* for BHP and THP, a rate otherwise; no two controls of a list share one.
TargetOf(kind, i) ==
    CASE kind = "BHP" -> Norm(5 * i, 3)
      [] kind = "THP" -> Norm(3 * i, 3)
      [] OTHER        -> Norm(i, 2)

\* Phase distribution of the control at place i: 0.3, 0.7, 0, ... rotated by
\* the place (it sums to 1), and 1 for a single phase.
DistrOf(i, np, p) ==
    LET q == (p + i - 1) % np
    IN  IF np = 1 THEN <<1, 0>>
        ELSE IF q = 0 THEN <<3, -1>>
        ELSE IF q = 1 THEN <<7, -1>>
        ELSE Zero

\* struct WellControls: num controls with type[], target[], distr[] (num * np
\* entries), the index of the current control, and the stopped/open flag.
MakeControls(kinds, cur, stopped, np) ==
    [ num     |-> Len(kinds),
      np      |-> np,
      type    |-> kinds,
      target  |-> [i \in 1..Len(kinds) |-> TargetOf(kinds[i], i)],
      distr   |-> [x \in 1..(Len(kinds) * np) |->
                     DistrOf(((x - 1) \div np) + 1, np, (x - 1) % np)],
      current |-> cur,
      stopped |-> stopped ]

well_controls_well_is_stopped(ctrl) == ctrl.stopped

well_controls_get_num(ctrl) == ctrl.num

well_controls_iget_type(ctrl, i) == ctrl.type[i + 1]

well_controls_iget_target(ctrl, i) == ctrl.target[i + 1]

well_controls_get_current_type(ctrl) == well_controls_iget_type(ctrl, ctrl.current)

well_controls_get_current_target(ctrl) == well_controls_iget_target(ctrl, ctrl.current)

\* pointer to the current control's np distribution entries
well_controls_get_current_distr(ctrl) ==
    [x \in 1..ctrl.np |-> ctrl.distr[ctrl.np * ctrl.current + x]]

\* ------------------------------------------------------------- inputs
KindLists == UNION { [1..n -> WellControlTypes] : n \in 1..MaxCtrls }

\* One well as the caller describes it: its type, its control list with the
\* current index (0-based) and the stopped flag, and its connection count.
WellDescrs ==
    UNION { [ type : WellTypes, stopped : BOOLEAN, kinds : {k},
              current : 0..(Len(k) - 1), nconn : 0..MaxConn ] : k \in KindLists }

\* The well the other wells of a set are: an open producer on one BHP control
\* with one connection.
PlainWell ==
    [ type |-> "PRODUCER", stopped |-> FALSE, kinds |-> <<"BHP">>,
      current |-> 0, nconn |-> 1 ]

\* Well lists of up to MaxWells wells, at most one of which is not PlainWell.
DescrLists ==
    {<<>>} \cup
    UNION { { [i \in 1..n |-> IF i = f THEN d ELSE PlainWell] :
                f \in 1..n, d \in WellDescrs } : n \in 1..MaxWells }

NumCells == MaxWells * MaxConn

RECURSIVE ConnPos(_, _)
\* well_connpos[w] (0-based w): the connections of the wells before w
ConnPos(ds, w) == IF w = 0 THEN 0 ELSE ConnPos(ds, w - 1) + ds[w].nconn

\* struct Wells. Sequences are 1-based: C's a[i] is a[i + 1] here. The k-th
\* connection overall perforates cell NumCells - 1 - k.
MakeWells(ds) ==
    [ number_of_wells  |-> Len(ds),
      number_of_phases |-> NumPhases,
      type         |-> [w \in 1..Len(ds) |-> ds[w].type],
      well_connpos |-> [w \in 1..(Len(ds) + 1) |-> ConnPos(ds, w - 1)],
      well_cells   |-> [k \in 1..ConnPos(ds, Len(ds)) |-> NumCells - k],
      ctrls        |-> [w \in 1..Len(ds) |->
                          MakeControls(ds[w].kinds, ds[w].current,
                                       ds[w].stopped, NumPhases)] ]

WellsInputs == { MakeWells(ds) : ds \in DescrLists }

\* state.pressure(): one pressure per grid cell, no two alike
ReservoirState == [ pressure |-> [c \in 0..(NumCells - 1) |-> Norm(200 + c, 5)] ]

\* ---------------------------------------------------------- the state
VARIABLES
    ws,       \* the WellState object: its six private vectors
    wells,    \* the simulation's Wells structure
    pc,       \* "constructed", "init" (init returned), "written", "aborted"
    arg,      \* the pointer the last init call got: NULL or "wells"
    grid,     \* the structured grid of the column test, or NULL
    columns   \* the columns extractColumn filled in

vars == <<ws, wells, pc, arg, grid, columns>>

Arrays == {"bhp_", "thp_", "temperature_", "wellrates_", "perfrates_", "perfpress_"}

\* a default-constructed WellState: six empty vectors
EmptyWellState == [a \in Arrays |-> <<>>]

\* std::vector<double>::resize(n, fill): the first n old elements are kept,
\* only the elements beyond the old size get fill.
Resize(v, n, fill) == [i \in 1..n |-> IF i <= Len(v) THEN v[i] ELSE fill]

\* ------------------------------------------------------ WellState::init
CurrentIsPressure(ctrl) ==
    well_controls_get_current_type(ctrl) \in {"BHP", "THP"}

\* wells->well_cells[wells->well_connpos[w]] lies past the end of well_cells
PastEnd(W, w) == W.well_connpos[w] >= Len(W.well_cells)

\* the default: branches, which look up the first connection of well w
ReachesLookup(W, w) == ~CurrentIsPressure(W.ctrls[w])

\* state.pressure()[first_cell] with first_cell = well_cells[well_connpos[w]].
\* Neither read is checked. For a well without connections well_cells yields
\* the next well's first cell, and past its end (undefined behaviour) the int
\* the build finds there, ub[1]. That int indexes state.pressure(): the
\* pressure of a real cell when it is a cell's number, and otherwise (undefined
\* behaviour again) the double the build finds there, ub[2], which is any
\* double at all.
FirstCellPressure(W, state, w, ub) ==
    LET first_cell == IF PastEnd(W, w) THEN ub[1]
                      ELSE W.well_cells[W.well_connpos[w] + 1]
    IN  IF first_cell \in DOMAIN state.pressure THEN state.pressure[first_cell]
        ELSE ub[2]

RECURSIVE ScanFrom(_, _, _, _)
ScanFrom(ctrl, kind, i, acc) ==
    IF i >= well_controls_get_num(ctrl) THEN acc
    ELSE ScanFrom(ctrl, kind, i + 1,
                  IF well_controls_iget_type(ctrl, i) = kind
                  THEN well_controls_iget_target(ctrl, i) ELSE acc)

\* Faulty variant: the scan stops at the first control of the kind.
ScanTarget_FirstWins(ctrl, kind) ==
    LET places == { i \in 0..(well_controls_get_num(ctrl) - 1) :
                      well_controls_iget_type(ctrl, i) = kind }
    IN  IF places = {} THEN Unset
        ELSE well_controls_iget_target(ctrl,
                 CHOOSE i \in places : \A j \in places : i <= j)

\* Open well, step 2: -1e100, overwritten by the target of every control of
\* the given kind in list order, so that the last one stays.
ScanTarget(ctrl, kind) == ScanFrom(ctrl, kind, 0, Unset)

\* Faulty variant: the factors of injector and producer exchanged.
safety_factor_Swapped(type) == IF type = "INJECTOR" THEN <<99, -2>> ELSE <<101, -2>>

safety_factor(type) == IF type = "INJECTOR" THEN <<101, -2>> ELSE <<99, -2>>

\* Faulty variant: the sign of injector and producer exchanged.
sign_Swapped(type) == IF type = "INJECTOR" THEN <<-1, 0>> ELSE <<1, 0>>

sign(type) == IF type = "INJECTOR" THEN <<1, 0>> ELSE <<-1, 0>>

\* Stopped well, step 2: bhp_[w], old being its value before the switch
StoppedBhp(W, state, w, old, ub) ==
    LET ctrl == W.ctrls[w]
    IN  CASE well_controls_get_current_type(ctrl) = "BHP" ->
               well_controls_get_current_target(ctrl)
          [] well_controls_get_current_type(ctrl) = "THP" -> old
          [] OTHER -> FirstCellPressure(W, state, w, ub)

\* Faulty variant: the default branch leaves thp_[w] alone.
StoppedThp_KeepsOld(ctrl, old) ==
    IF well_controls_get_current_type(ctrl) = "THP"
    THEN well_controls_get_current_target(ctrl) ELSE old

\* Stopped well, step 2: thp_[w]
StoppedThp(ctrl, old) ==
    CASE well_controls_get_current_type(ctrl) = "BHP" -> old
      [] well_controls_get_current_type(ctrl) = "THP" ->
           well_controls_get_current_target(ctrl)
      [] OTHER -> Unset

\* Open well, steps 2 and 3: bhp_[w]
OpenBhp(W, state, w, ub) ==
    LET ctrl == W.ctrls[w]
    IN  IF CurrentIsPressure(ctrl) THEN ScanTarget(ctrl, "BHP")
        ELSE Mul(safety_factor(W.type[w]), FirstCellPressure(W, state, w, ub))

\* Open well, step 1: wellrates_[np*w + p]
OpenRate(W, w, p) ==
    LET ctrl == W.ctrls[w]
    IN  IF well_controls_get_current_type(ctrl) = "SURFACE_RATE"
        THEN Mul(well_controls_get_current_target(ctrl),
                 well_controls_get_current_distr(ctrl)[p + 1])
        ELSE Mul(small_rate, sign(W.type[w]))

\* Stopped well, step 1
StoppedRate == Zero

\* init(wells, state) on the WellState s, for a non-null wells. The loop's
\* iterations write disjoint elements, so each element is given by its well.
InitWells(W, state, s, ub) ==
    LET nw   == W.number_of_wells
        np   == W.number_of_phases
        bhp0 == Resize(s.bhp_, nw, Zero)
        thp0 == Resize(s.thp_, nw, Zero)
        stopped(w) == well_controls_well_is_stopped(W.ctrls[w])
    IN  [ bhp_ |-> [w \in 1..nw |->
                      IF stopped(w) THEN StoppedBhp(W, state, w, bhp0[w], ub)
                      ELSE OpenBhp(W, state, w, ub)],
          thp_ |-> [w \in 1..nw |->
                      IF stopped(w) THEN StoppedThp(W.ctrls[w], thp0[w])
                      ELSE ScanTarget(W.ctrls[w], "THP")],
          temperature_ |-> Resize(s.temperature_, nw, StandardTemperature),
          wellrates_ |-> [x \in 1..(nw * np) |->
                      LET w == ((x - 1) \div np) + 1
                          p == (x - 1) % np
                      IN  IF stopped(w) THEN StoppedRate ELSE OpenRate(W, w, p)],
          perfrates_ |-> Resize(s.perfrates_, W.well_connpos[nw + 1], Zero),
          perfpress_ |-> Resize(s.perfpress_, W.well_connpos[nw + 1], Unset) ]

\* Faulty variant: a null wells empties the state.
init_ClearsOnNull(ptr, W, state, s, ub) ==
    IF ptr = NULL THEN EmptyWellState ELSE InitWells(W, state, s, ub)

\* init(wells, state): nothing at all for a null wells
init(ptr, W, state, s, ub) == IF ptr = NULL THEN s ELSE InitWells(W, state, s, ub)

\* some well's first-connection lookup reads past the end of well_cells
ReadsPastEnd(W) ==
    \E w \in 1..W.number_of_wells : ReachesLookup(W, w) /\ PastEnd(W, w)

\* The double a read outside state.pressure() gives: x itself, 1 * 10^0 * x.
\* It is not one value the model picks but every double the build can find
\* there (stale heap contents, a denormal, an element of another vector).
UBDouble == <<1, 0, "x">>

\* What the read past the end of well_cells can give when init returns: the
\* number of some cell (0 on a zeroed heap), or an int that is no cell's number
\* (NumCells stands for them all) together with the double read through it.
UBValues ==
    { <<c, Zero>> : c \in 0..(NumCells - 1) } \cup { <<NumCells, UBDouble>> }

\* init without a read past the end: ub is never looked at
NoUB == <<0, Zero>>

\* The outcomes of the undefined behaviour: the process dies (as it does under
\* an address sanitizer), or init returns with one of UBValues.
UBOutcomes == {<<"crash">>} \cup UBValues

\* ------------------------------------------------------------ actions
WellInit ==
    /\ ws = EmptyWellState
    /\ wells \in WellsInputs
    /\ pc = "constructed"
    /\ arg = NULL

\* A call ws.init(ptr, state), ptr being null or the simulation's wells.
InitCall ==
    /\ pc # "aborted"
    /\ \E ptr \in {NULL, "wells"} :
         \E ub \in IF ptr # NULL /\ ReadsPastEnd(wells) THEN UBOutcomes ELSE {NoUB} :
            /\ arg' = ptr
            /\ IF ub = <<"crash">>
               THEN pc' = "aborted" /\ ws' = ws
               ELSE pc' = "init" /\ ws' = init(ptr, wells, ReservoirState, ws, ub)
    /\ UNCHANGED <<wells, grid, columns>>

\* What the solver writes into the state
SolverValues == {<<7, 0>>}

\* The simulator replaces the state between two init calls: through the six
\* mutable accessors it gives every vector the size it has for k wells of one
\* connection each, filled with its own values.
SolverUpdate ==
    /\ pc # "aborted"
    /\ \E k \in 0..MaxResize : \E v \in SolverValues :
         ws' = [ bhp_         |-> [i \in 1..k |-> v],
                 thp_         |-> [i \in 1..k |-> v],
                 temperature_ |-> [i \in 1..k |-> v],
                 wellrates_   |-> [i \in 1..(k * wells.number_of_phases) |-> v],
                 perfrates_   |-> [i \in 1..k |-> v],
                 perfpress_   |-> [i \in 1..k |-> v] ]
    /\ pc' = "written"
    /\ UNCHANGED <<wells, arg, grid, columns>>

\* ws.bhp().resize(n), and the same through the other five mutable accessors
AccessorResize ==
    /\ pc # "aborted"
    /\ \E a \in Arrays : \E n \in 0..MaxResize :
         ws' = [ws EXCEPT ![a] = Resize(ws[a], n, Zero)]
    /\ pc' = "written"
    /\ UNCHANGED <<wells, arg, grid, columns>>

Init == WellInit /\ grid = NULL /\ columns = <<>>

Next == InitCall \/ SolverUpdate

Spec == Init /\ [][Next]_vars

\* The restart offsets depend on the six sizes alone: they are checked on a
\* simulation without wells whose vectors are resized through the accessors.
NoWells == MakeWells(<<>>)

OffsetInit ==
    /\ ws = EmptyWellState
    /\ wells = NoWells
    /\ pc = "constructed"
    /\ arg = NULL
    /\ grid = NULL
    /\ columns = <<>>

OffsetNext == InitCall \/ AccessorResize

OffsetSpec == OffsetInit /\ [][OffsetNext]_vars

\* ------------------------------------------------- ColumnExtractTest
\* GridManager(nx, ny, nz): a Cartesian grid, every cell active, cell ids in
\* natural order (x fastest, then y, then z).
GridManager(nx, ny, nz) ==
    [ cartdims |-> <<nx, ny, nz>>, number_of_cells |-> nx * ny * nz ]

i_cart(g, cell) == cell % g.cartdims[1]

k_cart(g, cell) == (cell \div g.cartdims[1]) \div g.cartdims[2]

j_cart(g, cell) ==
    (cell - k_cart(g, cell) * g.cartdims[1] * g.cartdims[2]) \div g.cartdims[1]

\* the horizontal position a column stands for
ColumnKey(g, cell) == <<i_cart(g, cell), j_cart(g, cell)>>

\* Faulty variant: decreasing K.
KBefore_Descending(g, a, b) == k_cart(g, a) > k_cart(g, b)

\* the order of the cells within a column: increasing K
KBefore(g, a, b) == k_cart(g, a) < k_cart(g, b)

RECURSIVE InsertByK(_, _, _)
InsertByK(g, col, cell) ==
    IF col = <<>> THEN <<cell>>
    ELSE IF KBefore(g, cell, Head(col)) THEN <<cell>> \o col
    ELSE <<Head(col)>> \o InsertByK(g, Tail(col), cell)

RECURSIVE SortByK(_, _)
SortByK(g, col) ==
    IF col = <<>> THEN <<>>
    ELSE InsertByK(g, SortByK(g, SubSeq(col, 1, Len(col) - 1)), col[Len(col)])

RECURSIVE Ascending(_)
\* the cells of a set in id order
Ascending(S) ==
    IF S = {} THEN <<>>
    ELSE LET m == CHOOSE x \in S : \A y \in S : x <= y
         IN  <<m>> \o Ascending(S \ {m})

\* The cell that opens a column: the first one, in id order, of its (I, J)
ColumnHeads(g) ==
    { c \in 0..(g.number_of_cells - 1) :
        \A d \in 0..(c - 1) : ColumnKey(g, d) # ColumnKey(g, c) }

\* extractColumn(grid, columns) on an empty columns: the cells grouped by
\* (I, J), one column per (I, J) in the order the columns' first cells come,
\* each column ordered by K.
extractColumn(g) ==
    LET heads == Ascending(ColumnHeads(g))
    IN  [n \in 1..Len(heads) |->
           SortByK(g, Ascending({ c \in 0..(g.number_of_cells - 1) :
                                    ColumnKey(g, c) = ColumnKey(g, heads[n]) }))]

\* The tests' expected answer: column i is i, i + nx*ny, i + 2*nx*ny, ...
\* (SingleColumnTest's 0..9 is the case nx = ny = 1).
correct_answer(size_x, size_y, size_z) ==
    [i \in 1..(size_x * size_y) |->
        [j \in 1..size_z |-> (i - 1) + (j - 1) * size_x * size_y]]

ColumnInit ==
    /\ ws = EmptyWellState
    /\ wells = NoWells
    /\ pc = "constructed"
    /\ arg = NULL
    /\ \E nx \in 1..MaxSide : \E ny \in 1..MaxSide : \E nz \in 1..MaxDepth :
         grid = GridManager(nx, ny, nz)
    /\ columns = <<>>

\* extractColumn(*manager.c_grid(), columns)
ExtractColumn ==
    /\ pc = "constructed"
    /\ columns' = extractColumn(grid)
    /\ pc' = "extracted"
    /\ UNCHANGED <<ws, wells, arg, grid>>

ColumnNext == ExtractColumn

ColumnSpec == ColumnInit /\ [][ColumnNext]_vars

\* ---------------------------------------------------- restart offsets
getRestartBhpOffset(s) == 0

getRestartPerfPressOffset(s) == Len(s.bhp_)

\* Faulty variant: perfRates counted before perfPress.
getRestartPerfRatesOffset_Swapped(s) == getRestartPerfPressOffset(s) + Len(s.perfrates_)

getRestartPerfRatesOffset(s) == getRestartPerfPressOffset(s) + Len(s.perfpress_)

getRestartTemperatureOffset(s) == getRestartPerfRatesOffset(s) + Len(s.perfrates_)

getRestartWellRatesOffset(s) == getRestartTemperatureOffset(s) + Len(s.temperature_)

\* ============================================================ claims
\* init(wells, state) with a non-null wells has returned
Completed == pc = "init" /\ arg = "wells"

Wells == 1..wells.number_of_wells

Stopped(w) == wells.ctrls[w].stopped

\* kind and target of the current control of well w
CurrentKind(w) == wells.ctrls[w].type[wells.ctrls[w].current + 1]

CurrentTarget(w) == wells.ctrls[w].target[wells.ctrls[w].current + 1]

\* well w has a connection, hence a first connection cell
HasConnection(w) == wells.well_connpos[w] < wells.well_connpos[w + 1]

\* ambient pressure of the first connection cell of a well with a connection
AmbientPressure(w) ==
    ReservoirState.pressure[wells.well_cells[wells.well_connpos[w] + 1]]

\* the places of the controls of a kind in the control list of well w
PlacesOf(w, kind) ==
    { i \in 1..wells.ctrls[w].num : wells.ctrls[w].type[i] = kind }

\* the phase rates wellrates_[np*w + p], p = 0 .. np-1, of well w
RatesOf(w) ==
    [p \in 1..wells.number_of_phases |->
        ws.wellrates_[wells.number_of_phases * (w - 1) + p]]

\* C1 as stated: after init, a well whose current control is BHP has
\* bhp[w] equal to the target of that current control, stopped or open,
\* whatever the control list is.
C1_CurrentBhpTarget ==
    Completed =>
        \A w \in Wells : CurrentKind(w) = "BHP" => ws.bhp_[w] = CurrentTarget(w)

\* C1 amended: after init, a stopped well whose current control is BHP has
\* bhp[w] equal to the target of the current control; an open one has bhp[w]
\* equal to the target of the last BHP control of its list, which is the
\* current control's target when no BHP control follows the current one.
C1_LastBhpTarget ==
    Completed =>
        \A w \in Wells : CurrentKind(w) = "BHP" =>
            LET last == CHOOSE i \in PlacesOf(w, "BHP") :
                            \A j \in PlacesOf(w, "BHP") : j <= i
            IN  /\ Stopped(w) => ws.bhp_[w] = CurrentTarget(w)
                /\ ~Stopped(w) => ws.bhp_[w] = wells.ctrls[w].target[last]
                /\ last = wells.ctrls[w].current + 1 => ws.bhp_[w] = CurrentTarget(w)

\* An open well on the first of two BHP controls got the second one's target.
C1_Witness ==
    /\ Completed
    /\ \E w \in Wells :
         /\ ~Stopped(w)
         /\ wells.ctrls[w].type = <<"BHP", "BHP">>
         /\ wells.ctrls[w].current = 0
         /\ ws.bhp_[w] = <<1, 4>>

\* C2: after init, an open well whose current control is neither BHP nor
\* THP has bhp[w] = 1.01 * the ambient pressure of its first connection cell
\* if it is an injector and 0.99 * that pressure if it is a producer, also
\* when its list holds a BHP control (a well without connections has no
\* first connection cell).
C2_OpenFallbackBhp ==
    Completed =>
        \A w \in Wells :
            (~Stopped(w) /\ CurrentKind(w) \notin {"BHP", "THP"} /\ HasConnection(w)) =>
                ws.bhp_[w] = IF wells.type[w] = "INJECTOR"
                             THEN Mul(<<101, -2>>, AmbientPressure(w))
                             ELSE Mul(<<99, -2>>, AmbientPressure(w))

\* An open injector on a rate control, with a BHP control in its list too.
C2_Witness ==
    /\ Completed
    /\ \E w \in Wells :
         /\ ~Stopped(w)
         /\ wells.type[w] = "INJECTOR"
         /\ CurrentKind(w) = "SURFACE_RATE"
         /\ PlacesOf(w, "BHP") # {}
         /\ HasConnection(w)
         /\ ws.bhp_[w] = Mul(<<101, -2>>, AmbientPressure(w))
         /\ ws.bhp_[w] # AmbientPressure(w)

\* C3: after init, a stopped well whose current control is neither BHP nor
\* THP has thp[w] = -1e100, every phase rate 0 and, having a first
\* connection cell, bhp[w] = the ambient pressure of that cell.
C3_StoppedDefault ==
    Completed =>
        \A w \in Wells :
            (Stopped(w) /\ CurrentKind(w) \notin {"BHP", "THP"}) =>
                /\ HasConnection(w) => ws.bhp_[w] = AmbientPressure(w)
                /\ ws.thp_[w] = Unset
                /\ \A p \in 1..wells.number_of_phases : RatesOf(w)[p] = Zero

\* A stopped well on a rate control, with a connection, after init.
C3_Witness ==
    /\ Completed
    /\ \E w \in Wells :
         /\ Stopped(w)
         /\ CurrentKind(w) = "RESERVOIR_RATE"
         /\ HasConnection(w)
         /\ ws.bhp_[w] = AmbientPressure(w)
         /\ ws.thp_[w] = <<-1, 100>>

\* C4: after init, an open well on a SurfaceRate control has the phase rates
\* target * distribution[p] of that control; any other open well has every
\* phase rate +1e-14 if it is an injector and -1e-14 if it is a producer.
C4_OpenRates ==
    Completed =>
        \A w \in Wells : ~Stopped(w) =>
            \A p \in 0..(wells.number_of_phases - 1) :
                RatesOf(w)[p + 1] =
                    IF CurrentKind(w) = "SURFACE_RATE"
                    THEN Mul(CurrentTarget(w),
                             wells.ctrls[w].distr[wells.number_of_phases
                                                  * wells.ctrls[w].current + p + 1])
                    ELSE IF wells.type[w] = "INJECTOR" THEN <<1, -14>>
                    ELSE <<-1, -14>>

\* The scenario: target 100 distributed 0.3 / 0.7 gives the rates 30 and 70;
\* and an open producer on a BHP control got a negative seed.
C4_Witness ==
    /\ Completed
    /\ \E w \in Wells :
         /\ ~Stopped(w)
         /\ CurrentKind(w) = "SURFACE_RATE"
         /\ CurrentTarget(w) = <<1, 2>>
         /\ SubSeq(RatesOf(w), 1, 2) = << <<3, 1>>, <<7, 1>> >>
    /\ \E w \in Wells :
         /\ ~Stopped(w)
         /\ wells.type[w] = "PRODUCER"
         /\ CurrentKind(w) = "BHP"
         /\ RatesOf(w)[1] = <<-1, -14>>

\* C5 as stated: after init with a non-null well set, perfRates and
\* perfPress have the length well_connpos[number_of_wells], every entry of
\* perfRates is 0 and every entry of perfPress is -1e100.
C5_PerfArraysFilled ==
    Completed =>
        /\ Len(ws.perfrates_) = wells.well_connpos[wells.number_of_wells + 1]
        /\ Len(ws.perfpress_) = wells.well_connpos[wells.number_of_wells + 1]
        /\ \A i \in 1..Len(ws.perfrates_) : ws.perfrates_[i] = Zero
        /\ \A i \in 1..Len(ws.perfpress_) : ws.perfpress_[i] = Unset

\* C6: for a fully active sx x sy x sz grid extractColumn gives sx*sy
\* columns of length sz, column i + j*sx being the cells i + j*sx + k*sx*sy
\* for k = 0 .. sz-1 in this order (the tests' expected answer), so that
\* every cell is in exactly one column.
C6_ColumnsOfStructuredGrid ==
    pc = "extracted" =>
        LET sx == grid.cartdims[1]
            sy == grid.cartdims[2]
            sz == grid.cartdims[3]
        IN  /\ Len(columns) = sx * sy
            /\ \A i \in 0..(sx - 1) : \A j \in 0..(sy - 1) :
                 columns[i + j * sx + 1] =
                     [k \in 1..sz |-> i + j * sx + (k - 1) * sx * sy]
            /\ columns = correct_answer(sx, sy, sz)
            /\ \A c \in 0..(grid.number_of_cells - 1) :
                 Cardinality({ <<n, k>> \in (1..Len(columns)) \X (1..sz) :
                                 k <= Len(columns[n]) /\ columns[n][k] = c }) = 1

\* The 4 x 4 x 10 grid: 16 columns, column 1 + 4*1 being 5, 21, ..., 149.
C6_Witness ==
    /\ pc = "extracted"
    /\ grid.cartdims = <<4, 4, 10>>
    /\ Len(columns) = 16
    /\ columns[6] = <<5, 21, 37, 53, 69, 85, 101, 117, 133, 149>>

\* C7: init with a null well set returns normally and changes none of the
\* six vectors, so that on a freshly constructed WellState they are all
\* empty afterwards.
C7_NullInitIsNoOp ==
    [][ (arg' = NULL /\ pc' \in {"init", "aborted"}) =>
            /\ pc' = "init"
            /\ ws' = ws
            /\ pc = "constructed" => ws' = EmptyWellState ]_vars

\* A null init that came upon a populated state and left it populated.
C7_Witness ==
    /\ pc = "init"
    /\ arg = NULL
    /\ Len(ws.bhp_) > 0
    /\ Len(ws.perfpress_) > 0

\* C8: in every reachable WellState the restart offsets are the cumulative
\* sizes in the order bhp, perfPress, perfRates, temperature, wellRates: thp
\* counts for none, and they do not decrease in this order.
C8_RestartOffsets ==
    /\ getRestartBhpOffset(ws) = 0
    /\ getRestartPerfPressOffset(ws) = Len(ws.bhp_)
    /\ getRestartPerfRatesOffset(ws) = Len(ws.bhp_) + Len(ws.perfpress_)
    /\ getRestartTemperatureOffset(ws) =
           Len(ws.bhp_) + Len(ws.perfpress_) + Len(ws.perfrates_)
    /\ getRestartWellRatesOffset(ws) =
           Len(ws.bhp_) + Len(ws.perfpress_) + Len(ws.perfrates_)
           + Len(ws.temperature_)
    /\ getRestartBhpOffset(ws) <= getRestartPerfPressOffset(ws)
    /\ getRestartPerfPressOffset(ws) <= getRestartPerfRatesOffset(ws)
    /\ getRestartPerfRatesOffset(ws) <= getRestartTemperatureOffset(ws)
    /\ getRestartTemperatureOffset(ws) <= getRestartWellRatesOffset(ws)

\* A state resized through the accessors whose vectors differ in size.
C8_Witness ==
    /\ pc = "written"
    /\ Len(ws.bhp_) = 1
    /\ Len(ws.thp_) = 2
    /\ Len(ws.perfpress_) = 2
    /\ Len(ws.perfrates_) = 0
    /\ Len(ws.temperature_) = 1
    /\ getRestartWellRatesOffset(ws) = 4

\* C9 as stated: init fails at the call when a well without connections
\* reaches the first-connection lookup (its current control being neither
\* BHP nor THP); it never returns having taken some other cell's pressure.
\* Stated for the well sets whose lookups stay inside well_cells, where the
\* code's behaviour is defined.
C9_FailsWithoutConnection ==
    (Completed /\ ~ReadsPastEnd(wells)) =>
        \A w \in Wells : ReachesLookup(wells, w) => HasConnection(w)

\* C10 as stated: init with a non-null well set on a WellState that was in
\* use leaves the six vectors as init with the same inputs leaves those of a
\* freshly constructed WellState (for inputs whose result is defined).
C10_ReinitAsFresh ==
    (Completed /\ ~ReadsPastEnd(wells)) =>
        ws = InitWells(wells, ReservoirState, EmptyWellState, NoUB)

====
